---- MODULE Spec2Model ----
(***************************************************************************)
(* Model of the page harvester (harvest.js, src/unnamed/part_004 lines     *)
(* 83-287) and of the rate counter of src/scripts/logger.js.               *)
(*                                                                         *)
(* The harvester is one sequential async script.  It is cut into actions   *)
(* at the awaits whose result the environment decides: the sleep of the    *)
(* rate limit, the browser launch, the navigation (with the content and    *)
(* block-page checks that read the loaded page) and the two file writes    *)
(* of the archive.  Each action carries the code up to the next such       *)
(* await, the catch and finally blocks of the iteration included.          *)
(*                                                                         *)
(* Time is counted in ticks; one hour (3600000 ms) is TicksPerHour ticks.  *)
(***************************************************************************)
EXTENDS Integers, Sequences, FiniteSets

\* ------------------------------------------------------------------ bounds
\* Longest input list (urls.csv / urls.txt) explored.
MaxTargets == 2
\* config.maxUrlsPerHour (HARVEST_MAX_URLS_PER_HOUR) of the runs explored.
MaxUrlsPerHour == 1
\* Ticks in the 3600000 ms window of the rate limit.
TicksPerHour == 2

\* ------------------------------------------------------------------ inputs
\* A URL is its parsed hostname (a sequence of labels) and its path.
UrlA1 == [hostname |-> <<"www", "a", "com">>, path |-> "p1", valid |-> TRUE]
UrlA2 == [hostname |-> <<"a", "com">>, path |-> "p2", valid |-> TRUE]
UrlB1 == [hostname |-> <<"b", "org">>, path |-> "p1", valid |-> TRUE]

\* Rows an input file may hold: { id, url }.
TargetPool ==
  { [id |-> "1", url |-> UrlA1],
    [id |-> "2", url |-> UrlA2],
    [id |-> "1", url |-> UrlB1] }

RECURSIVE SeqsUpTo(_, _)
SeqsUpTo(S, n) ==
  IF n = 0 THEN { <<>> }
  ELSE LET shorter == SeqsUpTo(S, n - 1)
       IN  shorter \cup { Append(s, x) : s \in { t \in shorter : Len(t) = n - 1 }, x \in S }

\* Ticks a navigation plus the stabilisation sleep after it may take (> 0:
\* the sleep after page.goto is at least 2000 ms).
NavTicks == { 1, 2 }
\* Ticks the interactions between the check of the page and the archive take.
InteractTicks == { 1, 2, 3 }
\* Ticks by which a timer may fire late.
SleepLate == { 0, 1 }

\* function extractHost(u)
extractHost(u) ==
  IF ~u.valid THEN <<"unknown">>
  ELSE IF Len(u.hostname) > 0 /\ u.hostname[1] = "www" THEN Tail(u.hostname)
  ELSE u.hostname

Hosts == { extractHost(t.url) : t \in TargetPool }

VARIABLES
  urls,                     \* const urls = await loadUrlList()
  pc,                       \* position of the script
  i,                        \* loop variable (1-based here)
  clock,                    \* Date.now(), in ticks
  wakeAt,                   \* when the pending sleep(waitTime) is due
  recentRequestTimestamps,  \* the harvest loop's window of request times
  domainToTimestamps,       \* the Map inside makeRateCounter()
  browser,                  \* "none" or "open"
  page,                     \* what the two page.evaluate checks read, or "none"
  indexExists, indexRows,   \* archive/archive_index.csv: header, then rows
  archiveFiles,             \* names of the files under archive/pages
  debugWrites,              \* writes under logs/failed_harvest, in order
  appLog,                   \* the per-target events of logs/app.log, in order
  exitCode,                 \* "running" or the status passed to process.exit
  checks,                   \* history: the admission checks of lines 156-167
  navigations,              \* history: the page.goto calls [i, host, at]
  fate,                     \* history: what the environment did to each target
  openSessions              \* the targets whose browser process is running

\* The challenge script (handleFullCaptchaProcess and its caller).
VARIABLES
  cpc,                      \* position of the challenge script
  sel,                      \* index into confirmButtonSelectors (1-based here)
  confirmed,                \* let confirmed = false
  clicks,                   \* history: the selectors whose button.click() was called
  drags,                    \* history: number of page.mouse.down() calls
  mouseDown,                \* whether the mouse button is held
  background, piece,        \* the two normalised crops of the screenshot
  bestMatch,                \* let bestMatch = { x: 0, y: 0, distance: Infinity }
  solved,                   \* "none", or what handleFullCaptchaProcess returned
  trail,                    \* history: the stages of the resolution, in order
  detections,               \* history: the calls of isCaptchaVisible
  navigated,                \* "unknown", or how page.waitForNavigation ended
  containerAfterDrag,       \* "unknown", or the container at the end of that wait
  failure,                  \* "none", or why the handler gave up
  solverResult,             \* "none", or how solveSliderCaptcha ended
  handleBox,                \* NoBox, or sliderBoundingBox
  dragFrom, dragTo,         \* NoPoint, or where mouse.down() / mouse.up() happened
  mainSteps                 \* history: what main did with the page, in order

\* The pointer moved by moveMouseLikeHuman.
VARIABLES
  mpc,                      \* position inside moveMouseLikeHuman
  mousePos,                 \* where the pointer is
  mouseMoves                \* history: the page.mouse.move calls and their events

hvars == << urls, pc, i, clock, wakeAt, recentRequestTimestamps, domainToTimestamps,
            browser, indexExists, indexRows, archiveFiles, debugWrites, appLog,
            exitCode, navigations, fate, page, checks, openSessions >>

cvars == << cpc, sel, confirmed, clicks, drags, mouseDown, background, piece,
            bestMatch, solved, trail, detections, navigated, containerAfterDrag,
            failure, solverResult, handleBox, dragFrom, dragTo, mainSteps >>

mvars == << mpc, mousePos, mouseMoves >>

vars == << urls, pc, i, clock, wakeAt, recentRequestTimestamps, domainToTimestamps,
           browser, indexExists, indexRows, archiveFiles, debugWrites, appLog,
           exitCode, navigations, fate, page, checks, openSessions, cvars, mvars >>

\* ----------------------------------------------------------------- helpers
\* url.replace(/[^a-zA-Z0-9]/g,'_').slice(0,100): the alphanumeric runs of the
\* URL survive, every separator becomes '_', and the name is cut off.
SafeUrlLen == 3
safeUrl(u) ==
  LET runs == u.hostname \o << u.path >>
  IN  SubSeq(runs, 1, IF Len(runs) < SafeUrlLen THEN Len(runs) ELSE SafeUrlLen)

\* Mutant of archiveHtmlPath: the content file is named after the URL alone.
archiveHtmlPathByUrlOnly(ts, u) == << 0, safeUrl(u), "html" >>

\* path.join(archiveDir, `${ts}_${safeUrl}.html`)
archiveHtmlPath(ts, u) == << ts, safeUrl(u), "html" >>

\* path.join(debugDir, `FAIL_${timestamp}_${safeUrl}.${ext}`)
debugPath(ts, u, ext) == << "FAIL", ts, safeUrl(u), ext >>

\* Mutant of PruneOld: nothing is shifted out of the window.
PruneOldNever(ts, now) == ts

\* while (ts.length > 0 && ts[0] < now - 3600000) ts.shift();
RECURSIVE PruneOld(_, _)
PruneOld(ts, now) ==
  IF Len(ts) > 0 /\ ts[1] < now - TicksPerHour THEN PruneOld(Tail(ts), now) ELSE ts

\* Mutant of waitTime: the two times are swapped.
waitTimeSwapped(ts, now) == now + TicksPerHour - ts[1]

\* const waitTime = recentRequestTimestamps[0] + 3600000 - now;
waitTime(ts, now) == ts[1] + TicksPerHour - now

\* Mutant of mustSleep: the cap is compared with > instead of >=.
mustSleepAboveCap(ts, host, now) ==
  /\ Len(ts) > MaxUrlsPerHour
  /\ waitTime(ts, now) > 0

\* Mutant of mustSleep: the window consulted is the one of the target's host.
mustSleepPerHost(ts, host, now) ==
  LET own == SelectSeq(domainToTimestamps[host], LAMBDA t : t >= now - TicksPerHour)
  IN  /\ Len(own) >= MaxUrlsPerHour
      /\ waitTime(own, now) > 0

\* if (recentRequestTimestamps.length >= config.maxUrlsPerHour) { ... if (waitTime > 0)
\* The harvester's window is one list for all hosts: host is not consulted.
mustSleep(ts, host, now) ==
  /\ Len(ts) >= MaxUrlsPerHour
  /\ waitTime(ts, now) > 0

\* recentRequestTimestamps.push(Date.now()), reached only past the block check
pushRequest(ts, now) == Append(ts, now)

\* makeRateCounter's record(domain): push now, prune older than the largest window
record(map, domain, now) ==
  [map EXCEPT ![domain] = PruneOld(Append(map[domain], now), now)]

\* counts[3600000] of record(domain): arr.filter(t => t >= start).length
countSince(arr, start) == Cardinality({ k \in 1..Len(arr) : arr[k] >= start })

\* Mutant of isBlockPage: the block signature alone decides.
isBlockPageOnSignatureAlone(contentCheck, isBlocked) == isBlocked

\* if (!contentCheck) { if (isBlocked) { ...capture...; throw } }
isBlockPage(contentCheck, isBlocked) == ~contentCheck /\ isBlocked

\* Mutant of initialIndexRows: the header is written whether or not the file exists.
initialIndexRowsRewritten(exists, rows) == << >>

\* try { await fs.access(indexPath); } catch { await fs.writeFile(indexPath, header) }
initialIndexRows(exists, rows) == IF exists THEN rows ELSE << >>

\* const line = `${id},${ts},${host},${url},html,${path}\n`; fs.appendFile(indexPath, line)
indexLine(t, ts) ==
  [id |-> t.id, timestamp |-> ts, source |-> extractHost(t.url), url |-> t.url,
   type |-> "html", path |-> archiveHtmlPath(ts, t.url)]
\* Mutant of appendIndex: a target whose id is in the index gets no row.
appendIndexUnlessPresent(rows, t, ts) ==
  IF \E n \in 1..Len(rows) : rows[n].id = t.id THEN rows ELSE Append(rows, indexLine(t, ts))
appendIndex(rows, t, ts) == Append(rows, indexLine(t, ts))

\* Mutant of closeBrowser: the finally block closes nothing.
closeBrowserNever(sessions, b, k) == sessions

\* finally { if (browser) { await browser.close(); } }
closeBrowser(sessions, b, k) == IF b = "open" THEN sessions \ { k } ELSE sessions

\* Mutant of nextTarget: the loop does not advance (the target is tried again).
nextTargetAgain(k) == k

\* The for loop's i++ after the try/catch/finally of a target.
nextTarget(k) == k + 1

\* logEvent({ tag: "harvest:error", url, message: e.message })
errorEvent(u, message) == [tag |-> "harvest:error", url |-> u, message |-> message]
\* logEvent({ tag: "harvest:archived", id, url, htmlPath })
archivedEvent(t, p) == [tag |-> "harvest:archived", url |-> t.url, message |-> "archived"]

\* ------------------------------------------------- the slider puzzle images
\* The crops of lines 47-48, scaled down: a background of BackgroundWidth x
\* BackgroundHeight pixels and a piece of PieceWidth x PieceHeight pixels.
\* A pixel is its shade after grayscale().contrast(1): 0 or 1.
BackgroundWidth == 4
BackgroundHeight == 3
PieceWidth == 1
PieceHeight == 1
Shades == { 0, 1 }
BackgroundPixels == (0..(BackgroundWidth - 1)) \X (0..(BackgroundHeight - 1))
PiecePixels == (0..(PieceWidth - 1)) \X (0..(PieceHeight - 1))
BlankBackground == [p \in BackgroundPixels |-> 0]
BlankPiece == [p \in PiecePixels |-> 0]

\* distance: Infinity, above every distance two pieces can have
Infinity == PieceWidth * PieceHeight + 1
NoMatch == [x |-> 0, y |-> 0, distance |-> Infinity]

\* background.clone().crop(x, y, piece.bitmap.width, piece.bitmap.height)
crop(img, x, y) == [p \in PiecePixels |-> img[<< x + p[1], y + p[2] >>]]

\* Jimp.distance(a, b): 0 for equal images, growing with their difference;
\* here the number of pixels in which the two differ.
distance(a, b) == Cardinality({ p \in PiecePixels : a[p] # b[p] })

\* Mutant of scanColumn: the update takes an equal distance too.
RECURSIVE scanColumnKeepsLast(_, _, _, _, _)
scanColumnKeepsLast(pc0, bg, x, y, best) ==
  IF y < BackgroundHeight - PieceHeight
  THEN LET d == distance(pc0, crop(bg, x, y))
       IN  scanColumnKeepsLast(pc0, bg, x, y + 1,
                               IF d <= best.distance THEN [x |-> x, y |-> y, distance |-> d]
                               ELSE best)
  ELSE best

\* for (let y = 0; y < background.bitmap.height - piece.bitmap.height; y++)
\*   if (distance < bestMatch.distance) bestMatch = { x, y, distance };
RECURSIVE scanColumn(_, _, _, _, _)
scanColumn(pc0, bg, x, y, best) ==
  IF y < BackgroundHeight - PieceHeight
  THEN LET d == distance(pc0, crop(bg, x, y))
       IN  scanColumn(pc0, bg, x, y + 1,
                      IF d < best.distance THEN [x |-> x, y |-> y, distance |-> d]
                      ELSE best)
  ELSE best

\* for (let x = 0; x < background.bitmap.width - piece.bitmap.width; x++)
RECURSIVE scanColumns(_, _, _, _)
scanColumns(pc0, bg, x, best) ==
  IF x < BackgroundWidth - PieceWidth
  THEN scanColumns(pc0, bg, x + 1, scanColumn(pc0, bg, x, 0, best))
  ELSE best

\* Lines 52-70: the brute-force search, x in the outer loop, y in the inner.
bruteForceSearch(pc0, bg) == scanColumns(pc0, bg, 0, NoMatch)

\* No bounding box read yet; no press or release made yet.
NoBox == [x |-> 0, y |-> 0, width |-> 0, height |-> 0]
NoPoint == [x |-> -1, y |-> -1]

\* The challenge script at position p with nothing done yet.
CaptchaAt(p) ==
  /\ cpc = p
  /\ sel = 1
  /\ confirmed = FALSE
  /\ clicks = << >>
  /\ drags = 0
  /\ mouseDown = FALSE
  /\ bestMatch = NoMatch
  /\ solved = "none"
  /\ trail = << >>
  /\ detections = << >>
  /\ navigated = "unknown"
  /\ containerAfterDrag = "unknown"
  /\ failure = "none"
  /\ solverResult = "none"
  /\ handleBox = NoBox
  /\ dragFrom = NoPoint
  /\ dragTo = NoPoint
  /\ mainSteps = << >>

\* The pointer of a fresh page: puppeteer starts it at (0, 0).
MouseAt(p) ==
  /\ mpc = p
  /\ mousePos = << 0, 0 >>
  /\ mouseMoves = << >>


\* ------------------------------------------------------------------- Init
\* A row, and its content file, left by an earlier run that archived UrlA1
\* under id "1".
PriorRow == indexLine([id |-> "1", url |-> UrlA1], -1)

Init ==
  /\ urls \in SeqsUpTo(TargetPool, MaxTargets)
  /\ pc = "index_init"
  /\ i = 1
  /\ clock = 0
  /\ wakeAt = 0
  /\ recentRequestTimestamps = << >>
  /\ domainToTimestamps = [h \in Hosts |-> << >>]
  /\ browser = "none"
  /\ \/ indexExists = FALSE /\ indexRows = << >> /\ archiveFiles = {}
     \/ indexExists = TRUE /\ indexRows = << PriorRow >> /\ archiveFiles = { PriorRow.path }
  /\ debugWrites = << >>
  /\ appLog = << >>
  /\ exitCode = "running"
  /\ navigations = << >>
  /\ fate = << >>
  /\ page = "none"
  /\ checks = << >>
  /\ openSessions = {}
  /\ CaptchaAt("idle")
  /\ background = BlankBackground
  /\ piece = BlankPiece
  /\ MouseAt("idle")

\* ---------------------------------------------------------------- actions
\* Lines 142-150: create the index with its header unless it exists.
IndexInit ==
  /\ pc = "index_init"
  /\ indexExists' = TRUE
  /\ indexRows' = initialIndexRows(indexExists, indexRows)
  /\ pc' = "loop"
  /\ UNCHANGED << cvars, mvars, openSessions, urls, i, clock, wakeAt, recentRequestTimestamps, domainToTimestamps,
                  browser, page, archiveFiles, debugWrites, appLog, exitCode,
                  checks, navigations, fate >>

\* Requests the rate counter holds for all hosts, not older than `start`.
allHostsSince(start) ==
  Cardinality(UNION { { << h, k >> : k \in { j \in 1..Len(domainToTimestamps[h]) :
                                                domainToTimestamps[h][j] >= start } } :
                      h \in Hosts })

\* History of one admission check: the window after pruning, the wait decided.
CheckRecord(pruned, wait) ==
  [i |-> i, host |-> extractHost(urls[i].url), now |-> clock, window |-> pruned,
   wait |-> wait,
   sameHost |-> countSince(domainToTimestamps[extractHost(urls[i].url)], clock - TicksPerHour),
   allHosts |-> allHostsSince(clock - TicksPerHour)]

\* Lines 154-167, cap not reached (or the oldest request is exactly an hour old).
RateLimitPass ==
  /\ pc = "loop"
  /\ i <= Len(urls)
  /\ LET pruned == PruneOld(recentRequestTimestamps, clock)
     IN  /\ ~mustSleep(pruned, extractHost(urls[i].url), clock)
         /\ recentRequestTimestamps' = pruned
         /\ checks' = Append(checks, CheckRecord(pruned, 0))
  /\ pc' = "launch"
  /\ UNCHANGED << cvars, mvars, openSessions, urls, i, clock, wakeAt, domainToTimestamps, browser, page, indexExists,
                  indexRows, archiveFiles, debugWrites, appLog, exitCode, navigations, fate >>

\* Lines 154-167, cap reached: await sleep(waitTime) is started.
RateLimitWait ==
  /\ pc = "loop"
  /\ i <= Len(urls)
  /\ LET pruned == PruneOld(recentRequestTimestamps, clock)
     IN  /\ mustSleep(pruned, extractHost(urls[i].url), clock)
         /\ recentRequestTimestamps' = pruned
         /\ wakeAt' = clock + waitTime(pruned, clock)
         /\ checks' = Append(checks, CheckRecord(pruned, waitTime(pruned, clock)))
  /\ pc' = "sleep"
  /\ UNCHANGED << cvars, mvars, openSessions, urls, i, clock, domainToTimestamps, browser, page, indexExists,
                  indexRows, archiveFiles, debugWrites, appLog, exitCode, navigations, fate >>

\* The timer of sleep(waitTime) fires, on time or late.
SleepDone ==
  /\ pc = "sleep"
  /\ \E late \in SleepLate : clock' = wakeAt + late
  /\ pc' = "launch"
  /\ UNCHANGED << cvars, mvars, openSessions, urls, i, wakeAt, recentRequestTimestamps, domainToTimestamps, browser,
                  page, indexExists, indexRows, archiveFiles, debugWrites, appLog,
                  exitCode, checks, navigations, fate >>

\* Lines 275-283: what catch, finally and the loop's i++ do once the target
\* has failed with `message`.
FailTarget(message, result) ==
  /\ appLog' = Append(appLog, errorEvent(urls[i].url, message))
  /\ browser' = "none"
  /\ openSessions' = closeBrowser(openSessions, browser, i)
  /\ page' = "none"
  /\ fate' = Append(fate, [i |-> i, result |-> result, at |-> clock'])
  /\ i' = nextTarget(i)
  /\ pc' = "loop"

\* Lines 173-197: puppeteerExtra.launch and newPage succeed; page.goto is issued.
LaunchOk ==
  /\ pc = "launch"
  /\ browser' = "open"
  /\ openSessions' = openSessions \cup { i }
  /\ navigations' = Append(navigations,
                           [i |-> i, host |-> extractHost(urls[i].url), at |-> clock])
  /\ pc' = "goto"
  /\ UNCHANGED << cvars, mvars, urls, i, clock, wakeAt, recentRequestTimestamps, domainToTimestamps,
                  page, indexExists, indexRows, archiveFiles, debugWrites, appLog,
                  exitCode, checks, fate >>

\* Mutant of LaunchFail: the launch error ends the process with status 1.
LaunchFailExits ==
  /\ pc = "launch"
  /\ appLog' = Append(appLog, errorEvent(urls[i].url, "launch failed"))
  /\ fate' = Append(fate, [i |-> i, result |-> "launch_failed", at |-> clock])
  /\ exitCode' = "1"
  /\ pc' = "exited"
  /\ UNCHANGED << cvars, mvars, openSessions, urls, i, clock, wakeAt, recentRequestTimestamps, domainToTimestamps,
                  browser, page, indexExists, indexRows, archiveFiles, debugWrites,
                  checks, navigations >>

\* Line 194 throws: browser stays undefined, the catch logs, the loop goes on.
LaunchFail ==
  /\ pc = "launch"
  /\ clock' = clock
  /\ FailTarget("launch failed", "launch_failed")
  /\ UNCHANGED << cvars, mvars, urls, wakeAt, recentRequestTimestamps, domainToTimestamps,
                  indexExists, indexRows, archiveFiles, debugWrites, exitCode,
                  checks, navigations >>

\* Mutant of GotoFail: the catch captures a screenshot and the markup.
GotoFailCaptures ==
  /\ pc = "goto"
  /\ \E d \in NavTicks : clock' = clock + d
  /\ debugWrites' = debugWrites \o << debugPath(clock', urls[i].url, "png"),
                                       debugPath(clock', urls[i].url, "html") >>
  /\ FailTarget("Navigation timeout", "nav_timeout")
  /\ UNCHANGED << cvars, mvars, urls, wakeAt, recentRequestTimestamps, domainToTimestamps,
                  indexExists, indexRows, archiveFiles, exitCode, checks, navigations >>

\* Line 197 throws (navigation timeout or navigation error).
GotoFail ==
  /\ pc = "goto"
  /\ \E d \in NavTicks : clock' = clock + d
  /\ \E reason \in { "timeout", "error" } :
       FailTarget(IF reason = "timeout" THEN "Navigation timeout" ELSE "net::ERR",
                  IF reason = "timeout" THEN "nav_timeout" ELSE "nav_error")
  /\ UNCHANGED << cvars, mvars, urls, wakeAt, recentRequestTimestamps, domainToTimestamps,
                  indexExists, indexRows, archiveFiles, debugWrites, exitCode,
                  checks, navigations >>

\* Lines 197-209: the page loads; after the stabilisation sleep the two
\* page.evaluate calls read it.
GotoLoaded ==
  /\ pc = "goto"
  /\ \E d \in NavTicks : clock' = clock + d
  /\ \E contentCheck \in BOOLEAN, isBlocked \in BOOLEAN :
       page' = [contentCheck |-> contentCheck, isBlocked |-> isBlocked]
  /\ pc' = "verify"
  /\ UNCHANGED << cvars, mvars, openSessions, urls, i, wakeAt, recentRequestTimestamps, domainToTimestamps, browser,
                  indexExists, indexRows, archiveFiles, debugWrites, appLog, exitCode,
                  checks, navigations, fate >>

\* Mutant of VerifyBlocked: the capture is made but nothing is thrown.
VerifyBlockedGoesOn ==
  /\ pc = "verify"
  /\ isBlockPage(page.contentCheck, page.isBlocked)
  /\ debugWrites' = debugWrites \o << debugPath(clock, urls[i].url, "png"),
                                       debugPath(clock, urls[i].url, "html") >>
  /\ recentRequestTimestamps' = pushRequest(recentRequestTimestamps, clock)
  /\ domainToTimestamps' = record(domainToTimestamps, extractHost(urls[i].url), clock)
  /\ page' = "none"
  /\ pc' = "interact"
  /\ UNCHANGED << cvars, mvars, openSessions, urls, i, clock, wakeAt, browser, indexExists, indexRows, archiveFiles,
                  appLog, exitCode, checks, navigations, fate >>

\* Lines 208-225: a block page: screenshot and markup are saved, then throw.
VerifyBlocked ==
  /\ pc = "verify"
  /\ isBlockPage(page.contentCheck, page.isBlocked)
  /\ clock' = clock
  /\ debugWrites' = debugWrites \o << debugPath(clock, urls[i].url, "png"),
                                       debugPath(clock, urls[i].url, "html") >>
  /\ FailTarget("Blocked by CAPTCHA/security page", "blocked")
  /\ UNCHANGED << cvars, mvars, urls, wakeAt, recentRequestTimestamps, domainToTimestamps,
                  indexExists, indexRows, archiveFiles, exitCode, checks, navigations >>

\* Lines 226-231: the page passes: the request is counted.
VerifyPassed ==
  /\ pc = "verify"
  /\ ~isBlockPage(page.contentCheck, page.isBlocked)
  /\ recentRequestTimestamps' = pushRequest(recentRequestTimestamps, clock)
  /\ domainToTimestamps' = record(domainToTimestamps, extractHost(urls[i].url), clock)
  /\ page' = "none"
  /\ pc' = "interact"
  /\ UNCHANGED << cvars, mvars, openSessions, urls, i, clock, wakeAt, browser, indexExists, indexRows, archiveFiles,
                  debugWrites, appLog, exitCode, checks, navigations, fate >>

\* Lines 233-283: interactions, content file, index row, archived event, close.
ArchiveOk ==
  /\ pc = "interact"
  /\ \E d \in InteractTicks : clock' = clock + d
  /\ archiveFiles' = archiveFiles \cup { archiveHtmlPath(clock', urls[i].url) }
  /\ indexRows' = appendIndex(indexRows, urls[i], clock')
  /\ appLog' = Append(appLog, archivedEvent(urls[i], archiveHtmlPath(clock', urls[i].url)))
  /\ browser' = "none"
  /\ openSessions' = closeBrowser(openSessions, browser, i)
  /\ fate' = Append(fate, [i |-> i, result |-> "ok", at |-> clock'])
  /\ i' = nextTarget(i)
  /\ pc' = "loop"
  /\ UNCHANGED << cvars, mvars, urls, wakeAt, recentRequestTimestamps, domainToTimestamps, page,
                  indexExists, debugWrites, exitCode, checks, navigations >>

\* Mutant of ArchiveWriteFail: the row is appended before the write is tried.
ArchiveWriteFailAfterAppend ==
  /\ pc = "interact"
  /\ \E d \in InteractTicks : clock' = clock + d
  /\ indexRows' = appendIndex(indexRows, urls[i], clock')
  /\ FailTarget("EIO: write", "write_failed")
  /\ UNCHANGED << cvars, mvars, urls, wakeAt, recentRequestTimestamps, domainToTimestamps, indexExists,
                  archiveFiles, debugWrites, exitCode, checks, navigations >>

\* Line 263 throws: no content file, no row.
ArchiveWriteFail ==
  /\ pc = "interact"
  /\ \E d \in InteractTicks : clock' = clock + d
  /\ FailTarget("EIO: write", "write_failed")
  /\ UNCHANGED << cvars, mvars, urls, wakeAt, recentRequestTimestamps, domainToTimestamps, indexExists,
                  indexRows, archiveFiles, debugWrites, exitCode, checks, navigations >>

\* Line 272 throws: the content file is there, the row is not.
ArchiveAppendFail ==
  /\ pc = "interact"
  /\ \E d \in InteractTicks : clock' = clock + d
  /\ archiveFiles' = archiveFiles \cup { archiveHtmlPath(clock', urls[i].url) }
  /\ FailTarget("EIO: append", "append_failed")
  /\ UNCHANGED << cvars, mvars, urls, wakeAt, recentRequestTimestamps, domainToTimestamps, indexExists,
                  indexRows, debugWrites, exitCode, checks, navigations >>

\* Lines 285-287: after the last target.
Finish ==
  /\ pc = "loop"
  /\ i > Len(urls)
  /\ exitCode' = "0"
  /\ pc' = "done"
  /\ UNCHANGED << cvars, mvars, openSessions, urls, i, clock, wakeAt, recentRequestTimestamps, domainToTimestamps,
                  browser, page, indexExists, indexRows, archiveFiles, debugWrites,
                  appLog, checks, navigations, fate >>

Next ==
  \/ IndexInit
  \/ RateLimitPass
  \/ RateLimitWait
  \/ SleepDone
  \/ LaunchOk
  \/ LaunchFail
  \/ GotoFail
  \/ GotoLoaded
  \/ VerifyBlocked
  \/ VerifyPassed
  \/ ArchiveOk
  \/ ArchiveWriteFail
  \/ ArchiveAppendFail
  \/ Finish

Spec == Init /\ [][Next]_vars

\* ===========================================================================
\* The challenge script: main's detector call, handleFullCaptchaProcess and
\* solveSliderCaptcha.  The harvester does not run in this specification.
HarvestIdle ==
  /\ urls = << >>
  /\ pc = "not_started"
  /\ i = 1
  /\ clock = 0
  /\ wakeAt = 0
  /\ recentRequestTimestamps = << >>
  /\ domainToTimestamps = [h \in Hosts |-> << >>]
  /\ browser = "none"
  /\ indexExists = FALSE
  /\ indexRows = << >>
  /\ archiveFiles = {}
  /\ debugWrites = << >>
  /\ appLog = << >>
  /\ exitCode = "running"
  /\ navigations = << >>
  /\ fate = << >>
  /\ page = "none"
  /\ checks = << >>
  /\ openSessions = {}

\* What page.frame(...) and waitForSelector('#captcha-container', visible)
\* can do in one call of the detector.
DetectorOutcomes ==
  { [frame |-> "absent", wait |-> "not_called"],
    [frame |-> "present", wait |-> "visible"],
    [frame |-> "present", wait |-> "timeout"],
    [frame |-> "present", wait |-> "error"] }

\* Mutant of isCaptchaVisible: the body is not wrapped in try/catch.
isCaptchaVisibleUncaught(o) ==
  IF o.frame = "absent" THEN "false"
  ELSE IF o.wait = "visible" THEN "true" ELSE "throw"

\* Lines 10-22: "true", "false", or "throw" if an exception left the function.
isCaptchaVisible(o) ==
  IF o.frame = "absent" THEN "false"
  ELSE IF o.wait = "visible" THEN "true" ELSE "false"

\* const confirmButtonSelectors = [ ... ]
confirmButtonSelectors == << "button:has-text(Confirm)", "button:has-text(Verify)", "#btn-interstitial" >>

imageOf(pixels, on) == [p \in pixels |-> IF p \in on THEN 1 ELSE 0]

\* Screenshots the page can show: the piece fits first at (1, 0); only at the
\* rightmost place of the top row; only at (2, 1).
SamplePuzzles ==
  { [background |-> imageOf(BackgroundPixels, { << 1, 0 >>, << 2, 0 >> }),
     piece |-> imageOf(PiecePixels, { << 0, 0 >> })],
    [background |-> imageOf(BackgroundPixels, { << BackgroundWidth - 1, 0 >> }),
     piece |-> imageOf(PiecePixels, { << 0, 0 >> })],
    [background |-> imageOf(BackgroundPixels, { << 2, 1 >> }),
     piece |-> imageOf(PiecePixels, { << 0, 0 >> })] }

\* Lines 119-122: catch (error) { console.error(...); return false; }
\* Mutant of solverCatch: the error is thrown on to the caller.
solverCatchRethrows(error) == "throw"

solverCatch(error) == "false"

\* Lines 169-172: the catch of handleFullCaptchaProcess.
\* Mutant of handlerCatch: the error is thrown on to the caller.
handlerCatchRethrows(error) == "throw"

handlerCatch(error) == "false"

\* Line 167: return await solveSliderCaptcha(page), inside the handler's try.
awaitSolver(value) == IF value = "throw" THEN handlerCatch("solver") ELSE value

\* What sliderHandle.boundingBox() can return: { x, y, width, height }.
SampleBoxes ==
  { [x |-> 10, y |-> 20, width |-> 4, height |-> 2],
    [x |-> 30, y |-> 20, width |-> 2, height |-> 2] }

\* Points of a box the pointer can be taken to: a corner and the middle.
pointsOf(box) ==
  { [x |-> box.x, y |-> box.y],
    [x |-> box.x + box.width \div 2, y |-> box.y + box.height \div 2] }

\* Lines 85-88: the middle of the box (the sample boxes have even sides).
startPoint(box) ==
  [x |-> box.x + box.width \div 2, y |-> box.y + box.height \div 2]

\* Lines 72, 90-93: targetX = bestMatch.x; the end point keeps startPoint.y.
endPoint(box, best) ==
  [x |-> startPoint(box).x + best.x, y |-> startPoint(box).y]

\* return true / return false of the handler, with the stage it ends in
Return(value) ==
  /\ solved' = value
  /\ trail' = Append(trail, IF value = "true" THEN "Solved" ELSE "Failed")
  /\ cpc' = "returned"

\* A return of solveSliderCaptcha, handed on by the handler.
SolverReturn(value) ==
  /\ solverResult' = value
  /\ Return(awaitSolver(value))

\* Line 204: if (await isCaptchaVisible(page))
MainCheck ==
  /\ cpc = "main_check"
  /\ \E o \in DetectorOutcomes :
       LET v == isCaptchaVisible(o)
       IN  /\ detections' = Append(detections, [frame |-> o.frame, wait |-> o.wait, value |-> v])
           /\ IF v = "true"
              THEN /\ cpc' = "handle_frame"
                   /\ trail' = << "Detected" >>
                   /\ mainSteps' = Append(mainSteps, "handler")
              ELSE /\ cpc' = (IF v = "false" THEN "main_page" ELSE "main_error")
                   /\ UNCHANGED << trail, mainSteps >>
  /\ UNCHANGED << hvars, mvars, solverResult, failure, handleBox, dragFrom, dragTo,
                  sel, confirmed, clicks, drags, mouseDown, background,
                  piece, bestMatch, solved, navigated, containerAfterDrag >>

\* Lines 128-132: the frame is gone when the handler looks it up.
HandleFrameMissing ==
  /\ cpc = "handle_frame"
  /\ failure' = "frame"
  /\ Return("false")
  /\ UNCHANGED << hvars, mvars, solverResult, handleBox, dragFrom, dragTo, mainSteps,
                  sel, confirmed, clicks, drags, mouseDown, background,
                  piece, bestMatch, detections, navigated, containerAfterDrag >>

\* Lines 128-144: the frame is there, the loop over the selectors starts.
HandleFrameFound ==
  /\ cpc = "handle_frame"
  /\ cpc' = "selectors"
  /\ sel' = 1
  /\ confirmed' = FALSE
  /\ UNCHANGED << hvars, mvars, solverResult, failure, handleBox, dragFrom, dragTo, mainSteps,
                  clicks, drags, mouseDown, background, piece, bestMatch,
                  solved, trail, detections, navigated, containerAfterDrag >>

\* Lines 146-148, 154-156: count() is 0, or the lookup throws: next selector.
SelectorNoMatch ==
  /\ cpc = "selectors"
  /\ sel <= Len(confirmButtonSelectors)
  /\ sel' = sel + 1
  /\ UNCHANGED << hvars, mvars, solverResult, failure, handleBox, dragFrom, dragTo, mainSteps,
                  cpc, confirmed, clicks, drags, mouseDown, background,
                  piece, bestMatch, solved, trail, detections, navigated,
                  containerAfterDrag >>

\* Mutant of SelectorClickOk: no break after the click.
SelectorClickOkNoBreak ==
  /\ cpc = "selectors"
  /\ sel <= Len(confirmButtonSelectors)
  /\ clicks' = Append(clicks, sel)
  /\ confirmed' = TRUE
  /\ trail' = Append(trail, "AwaitingConfirmation")
  /\ sel' = sel + 1
  /\ UNCHANGED << hvars, mvars, solverResult, failure, handleBox, dragFrom, dragTo, mainSteps,
                  cpc, drags, mouseDown, background, piece, bestMatch,
                  solved, detections, navigated, containerAfterDrag >>

\* Lines 148-152: the button is there and the click goes through: break.
SelectorClickOk ==
  /\ cpc = "selectors"
  /\ sel <= Len(confirmButtonSelectors)
  /\ clicks' = Append(clicks, sel)
  /\ confirmed' = TRUE
  /\ trail' = Append(trail, "AwaitingConfirmation")
  /\ cpc' = "settle"
  /\ UNCHANGED << hvars, mvars, solverResult, failure, handleBox, dragFrom, dragTo, mainSteps,
                  sel, drags, mouseDown, background, piece, bestMatch,
                  solved, detections, navigated, containerAfterDrag >>

\* Lines 148-156: the button is there but click({ timeout: 5000 }) throws; the
\* inner catch swallows it and the loop goes on with the next selector.
SelectorClickThrows ==
  /\ cpc = "selectors"
  /\ sel <= Len(confirmButtonSelectors)
  /\ clicks' = Append(clicks, sel)
  /\ sel' = sel + 1
  /\ UNCHANGED << hvars, mvars, solverResult, failure, handleBox, dragFrom, dragTo, mainSteps,
                  cpc, confirmed, drags, mouseDown, background, piece,
                  bestMatch, solved, trail, detections, navigated, containerAfterDrag >>

\* Lines 157-164: the loop ran out of selectors, confirmed is still false.
SelectorsExhausted ==
  /\ cpc = "selectors"
  /\ sel > Len(confirmButtonSelectors)
  /\ cpc' = "call_solver"
  /\ UNCHANGED << hvars, mvars, solverResult, failure, handleBox, dragFrom, dragTo, mainSteps,
                  sel, confirmed, clicks, drags, mouseDown, background,
                  piece, bestMatch, solved, trail, detections, navigated,
                  containerAfterDrag >>

\* Lines 159-161: await page.waitForTimeout(3000)
Settle ==
  /\ cpc = "settle"
  /\ cpc' = "call_solver"
  /\ UNCHANGED << hvars, mvars, solverResult, failure, handleBox, dragFrom, dragTo, mainSteps,
                  sel, confirmed, clicks, drags, mouseDown, background,
                  piece, bestMatch, solved, trail, detections, navigated,
                  containerAfterDrag >>

\* Lines 161, 169-172: the wait throws (the page was closed): outer catch.
SettleThrows ==
  /\ cpc = "settle"
  /\ failure' = "settle"
  /\ Return(handlerCatch("settle"))
  /\ UNCHANGED << hvars, mvars, solverResult, handleBox, dragFrom, dragTo, mainSteps,
                  sel, confirmed, clicks, drags, mouseDown, background,
                  piece, bestMatch, detections, navigated, containerAfterDrag >>

\* Line 167: return await solveSliderCaptcha(page)
CallSolver ==
  /\ cpc = "call_solver"
  /\ cpc' = "solve_frame"
  /\ trail' = Append(trail, "AwaitingPuzzle")
  /\ UNCHANGED << hvars, mvars, solverResult, failure, handleBox, dragFrom, dragTo, mainSteps,
                  sel, confirmed, clicks, drags, mouseDown, background,
                  piece, bestMatch, solved, detections, navigated, containerAfterDrag >>

\* Lines 27-37: the frame or the container is not found.
SolveLookupFail ==
  /\ cpc = "solve_frame"
  /\ failure' = "container"
  /\ SolverReturn("false")
  /\ UNCHANGED << hvars, mvars, handleBox, dragFrom, dragTo, mainSteps,
                  sel, confirmed, clicks, drags, mouseDown, background,
                  piece, bestMatch, detections, navigated, containerAfterDrag >>

\* Lines 40-57: screenshot, Jimp.read, the two crops and their normalisation.
CaptureOk ==
  /\ cpc = "solve_frame"
  /\ \E puzzle \in SamplePuzzles :
       /\ background' = puzzle.background
       /\ piece' = puzzle.piece
  /\ cpc' = "match"
  /\ UNCHANGED << hvars, mvars, solverResult, failure, handleBox, dragFrom, dragTo, mainSteps,
                  sel, confirmed, clicks, drags, mouseDown, bestMatch,
                  solved, trail, detections, navigated, containerAfterDrag >>

\* Lines 40-57, 119-122: the screenshot or an image operation throws.
CaptureThrows ==
  /\ cpc = "solve_frame"
  /\ failure' = "capture"
  /\ SolverReturn(solverCatch("capture"))
  /\ UNCHANGED << hvars, mvars, handleBox, dragFrom, dragTo, mainSteps,
                  sel, confirmed, clicks, drags, mouseDown, background,
                  piece, bestMatch, detections, navigated, containerAfterDrag >>

\* Lines 59-73: the brute-force search; targetX = bestMatch.x
Match ==
  /\ cpc = "match"
  /\ bestMatch' = bruteForceSearch(piece, background)
  /\ cpc' = "handle_lookup"
  /\ UNCHANGED << hvars, mvars, solverResult, failure, handleBox, dragFrom, dragTo, mainSteps,
                  sel, confirmed, clicks, drags, mouseDown, background,
                  piece, solved, trail, detections, navigated, containerAfterDrag >>

\* Mutant of HandleMissing: the solve is tried again from its top.
HandleMissingRetries ==
  /\ cpc = "handle_lookup"
  /\ cpc' = "solve_frame"
  /\ UNCHANGED << hvars, mvars, solverResult, failure, handleBox, dragFrom, dragTo, mainSteps,
                  sel, confirmed, clicks, drags, mouseDown, background,
                  piece, bestMatch, solved, trail, detections, navigated,
                  containerAfterDrag >>

\* Lines 76-80 (and 82-88 with a null bounding box): no slider handle.
HandleMissing ==
  /\ cpc = "handle_lookup"
  /\ failure' = "handle"
  /\ SolverReturn("false")
  /\ UNCHANGED << hvars, mvars, handleBox, dragFrom, dragTo, mainSteps,
                  sel, confirmed, clicks, drags, mouseDown, background,
                  piece, bestMatch, detections, navigated, containerAfterDrag >>

\* Lines 76-95: the handle and its box are found.
HandleFound ==
  /\ cpc = "handle_lookup"
  /\ handleBox' \in SampleBoxes
  /\ cpc' = "drag_press"
  /\ UNCHANGED << hvars, mvars, solverResult, failure, dragFrom, dragTo, mainSteps,
                  sel, confirmed, clicks, drags, mouseDown, background,
                  piece, bestMatch, solved, trail, detections, navigated,
                  containerAfterDrag >>

\* Lines 98-99: cursor.move(sliderHandle), page.mouse.down().  ghost-cursor's
\* move(element) takes the pointer to a point it picks inside the element's
\* box; startPoint is not passed to it.
DragPress ==
  /\ cpc = "drag_press"
  /\ dragFrom' \in pointsOf(handleBox)
  /\ mouseDown' = TRUE
  /\ drags' = drags + 1
  /\ cpc' = "drag_move"
  /\ UNCHANGED << hvars, mvars, solverResult, failure, handleBox, dragTo, mainSteps,
                  sel, confirmed, clicks, background, piece, bestMatch,
                  solved, trail, detections, navigated, containerAfterDrag >>

\* Lines 98, 119-122: cursor.move throws before the button is pressed.
DragPressThrows ==
  /\ cpc = "drag_press"
  /\ failure' = "press"
  /\ SolverReturn(solverCatch("press"))
  /\ UNCHANGED << hvars, mvars, handleBox, dragFrom, dragTo, mainSteps,
                  sel, confirmed, clicks, drags, mouseDown, background,
                  piece, bestMatch, detections, navigated, containerAfterDrag >>

\* Lines 100-102: the pause, cursor.moveTo(endPoint), page.mouse.up()
DragMove ==
  /\ cpc = "drag_move"
  /\ dragTo' = endPoint(handleBox, bestMatch)
  /\ mouseDown' = FALSE
  /\ cpc' = "wait_nav"
  /\ UNCHANGED << hvars, mvars, solverResult, failure, handleBox, dragFrom, mainSteps,
                  sel, confirmed, clicks, drags, background, piece,
                  bestMatch, solved, trail, detections, navigated, containerAfterDrag >>

\* Lines 100-101, 119-122: the pause or cursor.moveTo throws; mouse.up() is
\* not reached.
DragMoveThrows ==
  /\ cpc = "drag_move"
  /\ failure' = "move"
  /\ SolverReturn(solverCatch("move"))
  /\ UNCHANGED << hvars, mvars, handleBox, dragFrom, dragTo, mainSteps,
                  sel, confirmed, clicks, drags, mouseDown, background,
                  piece, bestMatch, detections, navigated, containerAfterDrag >>

\* Line 107: waitForNavigation resolves within its 20 s.  The environment
\* decides what the page shows at the end of the wait.
NavigationDetected ==
  /\ cpc = "wait_nav"
  /\ navigated' = "yes"
  /\ containerAfterDrag' \in { "present", "gone" }
  /\ cpc' = "recheck"
  /\ UNCHANGED << hvars, mvars, solverResult, failure, handleBox, dragFrom, dragTo, mainSteps,
                  sel, confirmed, clicks, drags, mouseDown, background,
                  piece, bestMatch, solved, trail, detections >>

\* Mutant of NavigationTimeout: the timeout is swallowed and the container
\* is looked at all the same.
NavigationTimeoutIgnored ==
  /\ cpc = "wait_nav"
  /\ navigated' = "timeout"
  /\ containerAfterDrag' \in { "present", "gone" }
  /\ cpc' = "recheck"
  /\ UNCHANGED << hvars, mvars, solverResult, failure, handleBox, dragFrom, dragTo, mainSteps,
                  sel, confirmed, clicks, drags, mouseDown, background,
                  piece, bestMatch, solved, trail, detections >>

\* Lines 107, 119-122: no navigation within 20 s: waitForNavigation throws
\* and the catch returns false without looking at the container.
NavigationTimeout ==
  /\ cpc = "wait_nav"
  /\ navigated' = "timeout"
  /\ containerAfterDrag' \in { "present", "gone" }
  /\ failure' = "navigation"
  /\ SolverReturn(solverCatch("navigation"))
  /\ UNCHANGED << hvars, mvars, handleBox, dragFrom, dragTo, mainSteps,
                  sel, confirmed, clicks, drags, mouseDown, background,
                  piece, bestMatch, detections >>

\* Lines 111-117: the detector is asked again; what it finds is what the
\* page shows.
Recheck ==
  /\ cpc = "recheck"
  /\ \E o \in DetectorOutcomes :
       /\ containerAfterDrag = "present" <=> (o.frame = "present" /\ o.wait = "visible")
       /\ LET v == isCaptchaVisible(o)
          IN  /\ detections' = Append(detections,
                                      [frame |-> o.frame, wait |-> o.wait, value |-> v])
              /\ failure' = (IF v = "false" THEN "none" ELSE "still_visible")
              /\ SolverReturn(IF v = "false" THEN "true" ELSE "false")
  /\ UNCHANGED << hvars, mvars, handleBox, dragFrom, dragTo, mainSteps,
                  sel, confirmed, clicks, drags, mouseDown, background,
                  piece, bestMatch, navigated, containerAfterDrag >>

\* Whether main is past its search (lines 228-240).
Searched == \E k \in 1..Len(mainSteps) : mainSteps[k] = "search"

\* Mutant of MainResume: the handler's answer is not looked at.
MainResumeIgnoresFailure ==
  /\ cpc = "returned"
  /\ cpc' = (IF Searched THEN "results_page" ELSE "main_page")
  /\ UNCHANGED << hvars, mvars, sel, confirmed, clicks, drags, mouseDown, background,
                  piece, bestMatch, solved, trail, detections, navigated,
                  containerAfterDrag, failure, solverResult, handleBox, dragFrom,
                  dragTo, mainSteps >>

\* Lines 205-209 and 244-248: if (!solved) throw ...; otherwise main goes on
\* from the check that called the handler.
MainResume ==
  /\ cpc = "returned"
  /\ cpc' = (IF solved # "true" THEN "main_error"
             ELSE IF Searched THEN "results_page" ELSE "main_page")
  /\ UNCHANGED << hvars, mvars, sel, confirmed, clicks, drags, mouseDown, background,
                  piece, bestMatch, solved, trail, detections, navigated,
                  containerAfterDrag, failure, solverResult, handleBox, dragFrom,
                  dragTo, mainSteps >>

\* Lines 213-218: the consent button shows up and is clicked.
ConsentClicked ==
  /\ cpc = "main_page"
  /\ mainSteps' = Append(mainSteps, "consent")
  /\ cpc' = "main_search"
  /\ UNCHANGED << hvars, mvars, sel, confirmed, clicks, drags, mouseDown, background,
                  piece, bestMatch, solved, trail, detections, navigated,
                  containerAfterDrag, failure, solverResult, handleBox, dragFrom,
                  dragTo >>

\* Lines 213-221: no consent button within 10 s, or the click throws: the
\* catch logs it and main goes on.
ConsentAbsent ==
  /\ cpc = "main_page"
  /\ cpc' = "main_search"
  /\ UNCHANGED << hvars, mvars, sel, confirmed, clicks, drags, mouseDown, background,
                  piece, bestMatch, solved, trail, detections, navigated,
                  containerAfterDrag, failure, solverResult, handleBox, dragFrom,
                  dragTo, mainSteps >>

\* Lines 224-240: the page settles, "laptop" is typed and searched for.
Search ==
  /\ cpc = "main_search"
  /\ mainSteps' = Append(mainSteps, "search")
  /\ cpc' = "after_search"
  /\ UNCHANGED << hvars, mvars, sel, confirmed, clicks, drags, mouseDown, background,
                  piece, bestMatch, solved, trail, detections, navigated,
                  containerAfterDrag, failure, solverResult, handleBox, dragFrom,
                  dragTo >>

\* Lines 224-240, 268: a wait of the search times out before anything is
\* clicked or typed; the outer catch takes over.
SearchThrows ==
  /\ cpc = "main_search"
  /\ cpc' = "main_error"
  /\ UNCHANGED << hvars, mvars, sel, confirmed, clicks, drags, mouseDown, background,
                  piece, bestMatch, solved, trail, detections, navigated,
                  containerAfterDrag, failure, solverResult, handleBox, dragFrom,
                  dragTo, mainSteps >>

\* Lines 242-244: the check after the search.  A new call of the handler
\* starts with its locals fresh; the histories of one call start again.
MainCheckAfterSearch ==
  /\ cpc = "after_search"
  /\ \E o \in DetectorOutcomes :
       LET v == isCaptchaVisible(o)
       IN  /\ detections' = Append(detections, [frame |-> o.frame, wait |-> o.wait, value |-> v])
           /\ IF v = "true"
              THEN /\ cpc' = "handle_frame"
                   /\ trail' = << "Detected" >>
                   /\ mainSteps' = Append(mainSteps, "handler")
                   /\ sel' = 1
                   /\ confirmed' = FALSE
                   /\ clicks' = << >>
                   /\ drags' = 0
                   /\ background' = BlankBackground
                   /\ piece' = BlankPiece
                   /\ bestMatch' = NoMatch
                   /\ solved' = "none"
                   /\ navigated' = "unknown"
                   /\ containerAfterDrag' = "unknown"
                   /\ failure' = "none"
                   /\ solverResult' = "none"
                   /\ handleBox' = NoBox
                   /\ dragFrom' = NoPoint
                   /\ dragTo' = NoPoint
              ELSE /\ cpc' = (IF v = "false" THEN "results_page" ELSE "main_error")
                   /\ UNCHANGED << trail, mainSteps, sel, confirmed, clicks, drags,
                                   background, piece, bestMatch, solved, navigated,
                                   containerAfterDrag, failure, solverResult,
                                   handleBox, dragFrom, dragTo >>
  /\ UNCHANGED << hvars, mvars, mouseDown >>

\* Lines 249-266: the product titles are read.
Scrape ==
  /\ cpc = "results_page"
  /\ mainSteps' = Append(mainSteps, "scrape")
  /\ cpc' = "closing"
  /\ UNCHANGED << hvars, mvars, sel, confirmed, clicks, drags, mouseDown, background,
                  piece, bestMatch, solved, trail, detections, navigated,
                  containerAfterDrag, failure, solverResult, handleBox, dragFrom,
                  dragTo >>

\* Lines 249-256, 268: the wait for the results throws before a title is read.
ScrapeThrows ==
  /\ cpc = "results_page"
  /\ cpc' = "main_error"
  /\ UNCHANGED << hvars, mvars, sel, confirmed, clicks, drags, mouseDown, background,
                  piece, bestMatch, solved, trail, detections, navigated,
                  containerAfterDrag, failure, solverResult, handleBox, dragFrom,
                  dragTo, mainSteps >>

\* Lines 268-270: the outer catch logs the error and takes error.png.
ErrorScreenshot ==
  /\ cpc = "main_error"
  /\ mainSteps' = Append(mainSteps, "screenshot")
  /\ cpc' = "closing"
  /\ UNCHANGED << hvars, mvars, sel, confirmed, clicks, drags, mouseDown, background,
                  piece, bestMatch, solved, trail, detections, navigated,
                  containerAfterDrag, failure, solverResult, handleBox, dragFrom,
                  dragTo >>

\* Lines 271-274: finally { await browser.close(); }
BrowserClose ==
  /\ cpc = "closing"
  /\ mainSteps' = Append(mainSteps, "close")
  /\ cpc' = "closed"
  /\ UNCHANGED << hvars, mvars, sel, confirmed, clicks, drags, mouseDown, background,
                  piece, bestMatch, solved, trail, detections, navigated,
                  containerAfterDrag, failure, solverResult, handleBox, dragFrom,
                  dragTo >>

InitCaptcha ==
  /\ HarvestIdle
  /\ MouseAt("idle")
  /\ CaptchaAt("main_check")
  /\ background = BlankBackground
  /\ piece = BlankPiece

NextCaptcha ==
  \/ MainCheck
  \/ HandleFrameMissing
  \/ HandleFrameFound
  \/ SelectorNoMatch
  \/ SelectorClickOk
  \/ SelectorClickThrows
  \/ SelectorsExhausted
  \/ Settle
  \/ SettleThrows
  \/ CallSolver
  \/ SolveLookupFail
  \/ CaptureOk
  \/ CaptureThrows
  \/ Match
  \/ HandleMissing
  \/ HandleFound
  \/ DragPress
  \/ DragPressThrows
  \/ DragMove
  \/ DragMoveThrows
  \/ NavigationDetected
  \/ NavigationTimeout
  \/ Recheck
  \/ MainResume
  \/ ConsentClicked
  \/ ConsentAbsent
  \/ Search
  \/ SearchThrows
  \/ MainCheckAfterSearch
  \/ Scrape
  \/ ScrapeThrows
  \/ ErrorScreenshot
  \/ BrowserClose

SpecCaptcha == InitCaptcha /\ [][NextCaptcha]_vars

\* Every step of the script is an awaited call with a timeout or a
\* synchronous computation, so the script cannot stay put while it can move.
SpecCaptchaFair == SpecCaptcha /\ WF_vars(NextCaptcha)

\* The search alone, applied to every pair of images.
InitSolver ==
  /\ HarvestIdle
  /\ MouseAt("idle")
  /\ CaptchaAt("match")
  /\ background \in [BackgroundPixels -> Shades]
  /\ piece \in [PiecePixels -> Shades]

NextSolver == Match

SpecSolver == InitSolver /\ [][NextSolver]_vars

\* ===========================================================================
\* moveMouseLikeHuman (the harvester's pointer movement), on its own.
\* { steps: 10 } and { steps: 15 }
StartSteps == 10
IntermediateSteps == 15

\* Math.random() * 500 + 100: values of [100, 600)
StartCoordinates == { 100, 350, 590 }
\* (Math.random() - 0.5) * 200: values of [-100, 100)
IntermediateOffsets == { -90, 0, 45, 90 }

\* page.mouse.move(x, y, { steps }): one mouseMoved event per step, at
\* from + (to - from) * (k / steps) for k = 1..steps.
mouseMove(from, to, steps) ==
  [k \in 1..steps |->
     << from[1] + ((to[1] - from[1]) * k) \div steps,
        from[2] + ((to[2] - from[2]) * k) \div steps >>]

moveRecord(from, to, steps) ==
  [from |-> from, to |-> to, steps |-> steps, points |-> mouseMove(from, to, steps)]

\* Lines 113-115: the move to a random start point.
MoveToStart ==
  /\ mpc = "start"
  /\ \E x \in StartCoordinates, y \in StartCoordinates :
       /\ mouseMoves' = Append(mouseMoves, moveRecord(mousePos, << x, y >>, StartSteps))
       /\ mousePos' = << x, y >>
  /\ mpc' = "intermediate"
  /\ UNCHANGED << hvars, cvars >>

\* Lines 118-120: the move to a random point near the start point.
MoveToIntermediate ==
  /\ mpc = "intermediate"
  /\ \E dx \in IntermediateOffsets, dy \in IntermediateOffsets :
       LET to == << mousePos[1] + dx, mousePos[2] + dy >>
       IN  /\ mouseMoves' = Append(mouseMoves, moveRecord(mousePos, to, IntermediateSteps))
           /\ mousePos' = to
  /\ mpc' = "done"
  /\ UNCHANGED << hvars, cvars >>

InitMouse ==
  /\ HarvestIdle
  /\ CaptchaAt("idle")
  /\ background = BlankBackground
  /\ piece = BlankPiece
  /\ MouseAt("start")

NextMouse ==
  \/ MoveToStart
  \/ MoveToIntermediate

SpecMouse == InitMouse /\ [][NextMouse]_vars

\* ------------------------------------------------------- claims: vocabulary
\* Rows this run has appended (the rows of earlier runs are older than time 0).
NewRows == SelectSeq(indexRows, LAMBDA r : r.timestamp >= 0)
\* Content files this run has written.
NewFiles == { f \in archiveFiles : f[1] >= 0 }
\* Targets the environment let through to the end: launched, loaded, not a
\* block page, both writes done.
OkFates == SelectSeq(fate, LAMBDA f : f.result = "ok")
\* The time a finished target's iteration began and ended.
BeganAt(k) == IF k = 1 THEN 0 ELSE fate[k - 1].at
EndedAt(k) == fate[k].at
\* What a finished target left behind.
RowsOf(k) == { n \in 1..Len(NewRows) :
                 NewRows[n].timestamp > BeganAt(k) /\ NewRows[n].timestamp <= EndedAt(k) }
FilesOf(k) == { f \in NewFiles : f[1] > BeganAt(k) /\ f[1] <= EndedAt(k) }
DiagsOf(k, ext) == { n \in 1..Len(debugWrites) :
                       /\ debugWrites[n][2] > BeganAt(k)
                       /\ debugWrites[n][2] <= EndedAt(k)
                       /\ debugWrites[n][4] = ext }

\* ------------------------------------------------------------------ C1
\* C1 (as claimed): for every navigation the loop starts, the navigations
\* started for the same domain within the hour ending at it, itself included,
\* number at most maxUrlsPerHour.
C1_HourlyCapPerDomain ==
  \A k \in 1..Len(navigations) :
    Cardinality({ j \in 1..k :
                    /\ navigations[j].host = navigations[k].host
                    /\ navigations[j].at > navigations[k].at - TicksPerHour })
      <= MaxUrlsPerHour

C3_EveryTargetOnceInOrder ==
  /\ \A k \in 1..Len(fate) : fate[k].i = k
  /\ \A m, n \in 1..Len(navigations) : navigations[m].i = navigations[n].i => m = n
  /\ \A m, n \in 1..Len(navigations) : m < n => navigations[m].i < navigations[n].i
  /\ Len(fate) <= Len(urls)
  /\ exitCode \in { "running", "0" }
  /\ exitCode = "0" <=> pc = "done"
  /\ pc = "done" => Len(fate) = Len(urls)

\* C3 witness: a run ended after a first target that failed and a second
\* that was archived.
C3_Witness ==
  /\ pc = "done"
  /\ Len(fate) = 2
  /\ fate[1].result \in { "nav_timeout", "nav_error", "blocked", "write_failed", "append_failed" }
  /\ fate[2].result = "ok"

IsPrefix(a, b) == Len(a) <= Len(b) /\ SubSeq(b, 1, Len(a)) = a

\* C5: every step leaves the index that exists in place and only extends it:
\* the rows before the step are a prefix of the rows after it (the header is
\* written only for a file that did not exist), and the step adds exactly as
\* many rows as targets it archived.
C5_IndexAppendOnly ==
  [][ /\ indexExists => indexExists'
      /\ IsPrefix(indexRows, indexRows')
      /\ Len(indexRows') - Len(indexRows) = Len(OkFates') - Len(OkFates) ]_vars

\* C5 witness: a run that found the index of an earlier run has appended to it.
C5_Witness ==
  /\ Len(indexRows) >= 2
  /\ indexRows[1] = PriorRow
  /\ Len(OkFates) >= 1

\* ------------------------------------------------------------------ C6
\* C6 (as claimed): no two rows of the index carry the same id.
C6_NoDuplicateIds ==
  \A m, n \in 1..Len(indexRows) : indexRows[m].id = indexRows[n].id => m = n

\* C6 (amended): the index is not consulted before a row is appended: the
\* rows of a run are, in order, one for each target it archived, with that
\* target's id, whether or not the id is already in the index.
C6_RowPerArchivedTarget ==
  /\ Len(NewRows) = Len(OkFates)
  /\ \A n \in 1..Len(NewRows) :
       n <= Len(OkFates) => NewRows[n].id = urls[OkFates[n].i].id

\* C6 witness: the index holds two rows with the same id.
C6_Witness ==
  \E m, n \in 1..Len(indexRows) : m < n /\ indexRows[m].id = indexRows[n].id

C16_SessionsSingleUseSequential ==
  /\ Cardinality(openSessions) <= 1
  /\ openSessions \subseteq { i }
  /\ pc \in { "index_init", "loop", "sleep", "launch", "done" } => openSessions = {}
  /\ pc \in { "goto", "verify", "interact" } => openSessions = { i }
  /\ \A m, n \in 1..Len(navigations) :
       m # n => navigations[m].i # navigations[n].i
  /\ \A c \in 1..Len(checks) : \A n \in 1..Len(navigations) :
       navigations[n].i < checks[c].i =>
         \E k \in 1..Len(fate) : fate[k].i = navigations[n].i /\ fate[k].at <= checks[c].now

\* C16 witness: a session failed after launch, another one ended well, and
\* the admission check of a later target has run with no session open.
C16_Witness ==
  /\ Len(fate) >= 1
  /\ fate[1].result \in { "nav_timeout", "nav_error", "blocked", "write_failed" }
  /\ Len(checks) >= 2
  /\ Len(navigations) >= 2
  /\ pc = "goto"
  /\ openSessions = { 2 }

\* ---------------------------------------------------------------------------
\* C19 (as the claim states it): every admitted request is recorded with one
\* timestamp at the admission decision, before the navigation is attempted
\* and whatever its outcome: while a navigation is under way, and after it
\* has failed, the window already ends with the timestamp of its admission.
C19_RecordedAtAdmission ==
  /\ pc \in { "goto", "verify" } =>
       /\ Len(recentRequestTimestamps) > 0
       /\ recentRequestTimestamps[Len(recentRequestTimestamps)]
            = navigations[Len(navigations)].at
  /\ \A k \in 1..Len(fate) :
       (fate[k].result \in { "nav_timeout", "nav_error", "blocked" } /\ Len(fate) = k
          /\ pc = "loop")
         => \E n \in 1..Len(domainToTimestamps[extractHost(urls[k].url)]) :
              domainToTimestamps[extractHost(urls[k].url)][n] >= BeganAt(k)

\* ---------------------------------------------------------------------------
IsSorted(ts) == \A m, n \in 1..Len(ts) : m <= n => ts[m] <= ts[n]
NoneOlderThanHour(ts, now) == \A n \in 1..Len(ts) : ts[n] >= now - TicksPerHour

\* C20 (as the claim states it): after every access to the rate state, the
\* admission check and the recording of a request alike, no stored timestamp
\* is older than one hour and the timestamps are in non-decreasing order.
\* pc = "interact" is the state right after the recording, the clock still
\* being the instant of the push.
C20_NoStaleAfterAccess ==
  /\ \A c \in 1..Len(checks) :
       NoneOlderThanHour(checks[c].window, checks[c].now) /\ IsSorted(checks[c].window)
  /\ pc = "interact" =>
       /\ NoneOlderThanHour(recentRequestTimestamps, clock)
       /\ IsSorted(recentRequestTimestamps)
       /\ NoneOlderThanHour(domainToTimestamps[extractHost(urls[i].url)], clock)
       /\ IsSorted(domainToTimestamps[extractHost(urls[i].url)])

\* C20 (amended): the window of the admission decision is pruned by the
\* admission check only, so no timestamp in it is older than one hour right
\* after a check; the push that records a request prunes nothing, and the
\* window may hold an older timestamp from the push to the next check.  The
\* per-domain list of the logging counter is pruned by each record() and
\* holds nothing older than one hour after it.  All lists are always in
\* non-decreasing order.
C20_FreshAfterCheckAndRecord ==
  /\ \A c \in 1..Len(checks) :
       NoneOlderThanHour(checks[c].window, checks[c].now) /\ IsSorted(checks[c].window)
  /\ pc = "interact" =>
       NoneOlderThanHour(domainToTimestamps[extractHost(urls[i].url)], clock)
  /\ IsSorted(recentRequestTimestamps)
  /\ \A h \in Hosts : IsSorted(domainToTimestamps[h])

\* C20 witness: a request has just been recorded after a wait; the window
\* still holds the timestamp that was waited for, now older than one hour,
\* while the list of the logging counter holds none.
C20_Witness ==
  /\ pc = "interact"
  /\ Len(recentRequestTimestamps) >= 2
  /\ recentRequestTimestamps[1] < clock - TicksPerHour
  /\ NoneOlderThanHour(domainToTimestamps[extractHost(urls[i].url)], clock)

\* ---------------------------------------------------------------------------
\* Vocabulary of the claims about the challenge script.
HandlerPositions ==
  { "handle_frame", "selectors", "settle", "call_solver", "solve_frame", "match",
    "handle_lookup", "drag_press", "drag_move", "wait_nav", "recheck" }

\* How far one invocation of the handler has got: it only grows.
CaptchaRank ==
  CASE cpc = "handle_frame" -> 1
    [] cpc = "selectors" -> 1 + sel
    [] cpc = "settle" -> 2 + Len(confirmButtonSelectors) + 1
    [] cpc = "call_solver" -> 2 + Len(confirmButtonSelectors) + 2
    [] cpc = "solve_frame" -> 2 + Len(confirmButtonSelectors) + 3
    [] cpc = "match" -> 2 + Len(confirmButtonSelectors) + 4
    [] cpc = "handle_lookup" -> 2 + Len(confirmButtonSelectors) + 5
    [] cpc = "drag_press" -> 2 + Len(confirmButtonSelectors) + 6
    [] cpc = "drag_move" -> 2 + Len(confirmButtonSelectors) + 7
    [] cpc = "wait_nav" -> 2 + Len(confirmButtonSelectors) + 8
    [] cpc = "recheck" -> 2 + Len(confirmButtonSelectors) + 9
    [] cpc = "returned" -> 2 + Len(confirmButtonSelectors) + 10
    [] OTHER -> 0

stageRank(stage) ==
  CASE stage = "Detected" -> 1
    [] stage = "AwaitingConfirmation" -> 2
    [] stage = "AwaitingPuzzle" -> 3
    [] OTHER -> 4

Visited(stage) == \E n \in 1..Len(trail) : trail[n] = stage

\* C11: whatever the detector, the clicks, the solver, the drag and the
\* navigation do, one invocation of handleFullCaptchaProcess returns true or
\* false: every step of the invocation moves it strictly forward (so it
\* takes a bounded number of steps and never loops), and once invoked it
\* does return.
C11_HandlerTerminates ==
  /\ [][(cpc \in HandlerPositions) => (CaptchaRank < CaptchaRank')]_vars
  /\ (cpc = "handle_frame") ~> (cpc = "returned" /\ solved \in { "true", "false" })

\* C11 witness: the handler has returned after the longest run there is:
\* every click threw, the drag was made and the navigation timed out.
C11_Witness ==
  /\ cpc = "returned"
  /\ solved = "false"
  /\ Len(clicks) = Len(confirmButtonSelectors)
  /\ navigated = "timeout"

\* ---------------------------------------------------------------------------
\* C12 (as the claim states it): one invocation clicks a confirmation control
\* at most once and drags at most once, whatever the steps' outcomes.
C12_AtMostOneClickOneDrag ==
  /\ Len(clicks) <= 1
  /\ drags <= 1

\* ---------------------------------------------------------------------------
\* C13 (as the claim states it): after the drag the container alone decides:
\* still present at the end of the wait, the handler fails; gone, it succeeds.
C13_ContainerAloneDecides ==
  (cpc = "returned" /\ containerAfterDrag # "unknown") =>
    /\ containerAfterDrag = "present" => solved = "false"
    /\ containerAfterDrag = "gone" => solved = "true"

\* C13 (amended): after the drag the handler first waits for a navigation;
\* if none is detected within the wait it fails, whether the container is
\* still there or not.  Only after a detected navigation does the container
\* decide: present, it fails; gone, it succeeds.
C13_NavigationThenContainerDecide ==
  (cpc = "returned" /\ containerAfterDrag # "unknown") =>
    (solved = "true" <=> (navigated = "yes" /\ containerAfterDrag = "gone"))

\* C13 witness: the container is gone, no navigation was seen, the handler
\* failed.
C13_Witness ==
  /\ cpc = "returned"
  /\ drags = 1
  /\ navigated = "timeout"
  /\ containerAfterDrag = "gone"
  /\ solved = "false"

\* ---------------------------------------------------------------------------
StagesInOrder ==
  /\ \A m, n \in 1..Len(trail) : m < n => stageRank(trail[m]) < stageRank(trail[n])
  /\ Len(trail) > 0 => trail[1] = "Detected"
  /\ Visited("AwaitingConfirmation") => confirmed
  /\ Visited("AwaitingPuzzle") => (Visited("AwaitingConfirmation") <=> confirmed)

ScenarioB == trail = << "Detected", "AwaitingConfirmation", "AwaitingPuzzle", "Solved" >>

\* C14 (as the claim states it): the stages are visited only in the order
\* Detected, [AwaitingConfirmation,] AwaitingPuzzle, Solved or Failed, with
\* AwaitingConfirmation exactly when a control was clicked, none visited
\* twice, and the end reached through AwaitingPuzzle; when the four stages
\* Detected, AwaitingConfirmation, AwaitingPuzzle, Solved were visited, the
\* target has yielded one archive record.
C14_StagesInOrderAndArchived ==
  /\ StagesInOrder
  /\ (Visited("Solved") \/ Visited("Failed")) => Visited("AwaitingPuzzle")
  /\ (ScenarioB /\ cpc = "main_page") =>
       (Len(indexRows) = 1 /\ Cardinality(archiveFiles) = 1)

\* C14 (amended): the stages are visited in the order Detected,
\* [AwaitingConfirmation,] AwaitingPuzzle, Solved or Failed, none twice, with
\* AwaitingConfirmation exactly when a click on a control went through;
\* Solved is reached through AwaitingPuzzle only, while Failed is also
\* reached straight from Detected (the frame is gone when the handler looks
\* it up) and from AwaitingConfirmation (the wait after the click throws).
\* The script that runs the stages archives nothing: after the four stages
\* of the scenario it goes on to the main page and no index row or content
\* file has been written.
C14_StagesInOrder ==
  /\ StagesInOrder
  /\ Visited("Solved") => Visited("AwaitingPuzzle")
  /\ (Visited("Failed") /\ ~Visited("AwaitingPuzzle")) =>
       \/ trail = << "Detected", "Failed" >>
       \/ trail = << "Detected", "AwaitingConfirmation", "Failed" >>
  /\ ScenarioB => (indexRows = << >> /\ archiveFiles = {})

\* C14 witness: the four stages of the scenario, and the script is on the
\* main page.
C14_Witness ==
  /\ ScenarioB
  /\ cpc = "main_page"
  /\ confirmed
  /\ solved = "true"

\* ---------------------------------------------------------------------------
\* C15: the detector never throws: it answers "no challenge" when the frame
\* is absent, when the container does not become visible in time and when
\* the lookup fails, and "detected" only when the frame exists and the
\* container is visible.
C15_DetectorNeverThrows ==
  /\ \A n \in 1..Len(detections) :
       /\ detections[n].value \in { "true", "false" }
       /\ detections[n].value = "true" <=>
            (detections[n].frame = "present" /\ detections[n].wait = "visible")

\* C15 witness: the detector saw the challenge, and in a later call its
\* lookup failed and it answered "no challenge".
C15_Witness ==
  /\ Len(detections) = 2
  /\ detections[1].value = "true"
  /\ detections[2].wait = "error"
  /\ detections[2].value = "false"

\* ---------------------------------------------------------------------------
ValidOffsets ==
  (0..(BackgroundWidth - PieceWidth)) \X (0..(BackgroundHeight - PieceHeight))

ExactMatches == { o \in ValidOffsets : crop(background, o[1], o[2]) = piece }

\* C17 (as the claim states it): when the piece fits the background at
\* exactly one offset (dx, dy), the largest offsets included, the x of the
\* best match is within 2 pixels of dx.  (On any pair of images the search
\* ends with a value: the search is a total function here.)
C17_RecoversInjectedOffset ==
  cpc = "handle_lookup" =>
    \A o \in ValidOffsets :
      ExactMatches = { o } =>
        (bestMatch.x - o[1] <= 2 /\ o[1] - bestMatch.x <= 2)

\* ---------------------------------------------------------------------------
Collinear(a, b, c) ==
  (b[1] - a[1]) * (c[2] - a[2]) = (b[2] - a[2]) * (c[1] - a[1])

\* The pointer path of one move: where it starts, then its events.
PathOf(m) == << m.from >> \o m.points

\* C18 (as the claim states it): every generated pointer path starts at its
\* from and ends at its to, and with 3 steps or more its points are not all
\* on one line.  (The code configures no maximum step distance; the steps of
\* a move are its length divided by its number of steps.)
C18_PathEndsAndBends ==
  \A n \in 1..Len(mouseMoves) :
    LET m == mouseMoves[n]
        path == PathOf(m)
    IN  /\ path[1] = m.from
        /\ path[Len(path)] = m.to
        /\ (m.steps >= 3 /\ m.from # m.to) =>
             \E j, k, l \in 1..Len(path) : ~Collinear(path[j], path[k], path[l])

\* ---------------------------------------------------------------------------
\* C28: whenever the loop sleeps for the rate limit, the sleep is longer
\* than 0 and at most one hour, and when it ends the oldest recorded
\* timestamp is at least one hour old: the navigation admitted after the
\* sleep starts an hour or more after the oldest recorded request.
C28_SleepWithinHourOutlastsOldest ==
  /\ \A c \in 1..Len(checks) :
       checks[c].wait > 0 =>
         /\ checks[c].wait <= TicksPerHour
         /\ checks[c].now + checks[c].wait = checks[c].window[1] + TicksPerHour
         /\ \A n \in 1..Len(navigations) :
              navigations[n].i = checks[c].i =>
                navigations[n].at >= checks[c].window[1] + TicksPerHour
  /\ pc = "sleep" => (wakeAt > clock /\ wakeAt <= clock + TicksPerHour)
  /\ (pc = "launch" /\ Len(checks) > 0 /\ checks[Len(checks)].wait > 0) =>
       /\ Len(recentRequestTimestamps) > 0
       /\ recentRequestTimestamps[1] + TicksPerHour <= clock

\* C28 witness: a navigation has been started after a sleep that ended late.
C28_Witness ==
  /\ pc = "goto"
  /\ checks[Len(checks)].wait > 0
  /\ checks[Len(checks)].i = i
  /\ navigations[Len(navigations)].i = i
  /\ navigations[Len(navigations)].at > checks[Len(checks)].window[1] + TicksPerHour

\* ---------------------------------------------------------------------------
\* C29: the content file of a target is written before its row is appended:
\* at every moment every row of the index names a content file that exists,
\* and a target whose content write failed has no row.
C29_RowsNameWrittenFiles ==
  /\ \A n \in 1..Len(indexRows) : indexRows[n].path \in archiveFiles
  /\ \A k \in 1..Len(fate) :
       fate[k].result = "write_failed" => (RowsOf(k) = {} /\ FilesOf(k) = {})
  /\ \A k \in 1..Len(fate) :
       fate[k].result = "append_failed" => (RowsOf(k) = {} /\ FilesOf(k) # {})

\* C29 witness: the content write of the first target failed, the second
\* target has its file and its row.
C29_Witness ==
  /\ Len(fate) = 2
  /\ fate[1].result = "write_failed"
  /\ fate[2].result = "ok"
  /\ Len(NewRows) = 1
  /\ NewRows[1].path \in archiveFiles

C21_FirstMatchWins ==
  clicks # << >> =>
    /\ Len(clicks) = 1
    /\ ~(cpc = "selectors" /\ sel <= Len(confirmButtonSelectors))

\* ---------------------------------------------------------------------------
distanceAt(o) == distance(piece, crop(background, o[1], o[2]))

\* C22 (as the claim states it): the search is exhaustive: the offset it
\* returns attains the least distance over all offsets at which the piece
\* lies inside the background, 0 <= x <= backgroundWidth - pieceWidth and
\* 0 <= y <= backgroundHeight - pieceHeight.
C22_MinimumOverAllOffsets ==
  cpc = "handle_lookup" =>
    /\ << bestMatch.x, bestMatch.y >> \in ValidOffsets
    /\ bestMatch.distance = distanceAt(<< bestMatch.x, bestMatch.y >>)
    /\ \A o \in ValidOffsets : bestMatch.distance <= distanceAt(o)

\* ---------------------------------------------------------------------------
\* The offsets the two loops do examine.
ExaminedOffsets ==
  (0..(BackgroundWidth - PieceWidth - 1)) \X (0..(BackgroundHeight - PieceHeight - 1))

LeastExamined(o) == \A q \in ExaminedOffsets : distanceAt(o) <= distanceAt(q)

\* C23 (as the claim states it): of several offsets with the same least
\* distance the search returns the first in a row-major scan (row y = 0 from
\* left to right, then the next row): no equally good offset lies in an
\* earlier row, or earlier in the same row.
C23_FirstInRowMajorScan ==
  cpc = "handle_lookup" =>
    \A o \in ExaminedOffsets :
      LeastExamined(o) =>
        \/ bestMatch.y < o[2]
        \/ bestMatch.y = o[2] /\ bestMatch.x <= o[1]

\* C23 (amended): of several examined offsets with the same least distance
\* the search returns the first met in its own scan, which goes column by
\* column (all y of column x = 0, then the next column): the returned offset
\* attains the least distance of the examined offsets and no equally good
\* examined offset lies in an earlier column, or higher in the same column.
C23_FirstInColumnMajorScan ==
  cpc = "handle_lookup" =>
    /\ LeastExamined(<< bestMatch.x, bestMatch.y >>)
    /\ bestMatch.distance = distanceAt(<< bestMatch.x, bestMatch.y >>)
    /\ \A o \in ExaminedOffsets :
         LeastExamined(o) =>
           \/ bestMatch.x < o[1]
           \/ bestMatch.x = o[1] /\ bestMatch.y <= o[2]

\* C23 witness: two examined offsets are equally good, one first by rows and
\* one first by columns, and the search has returned the latter.
C23_Witness ==
  /\ cpc = "handle_lookup"
  /\ \E o \in ExaminedOffsets :
       /\ LeastExamined(o)
       /\ o[2] < bestMatch.y
       /\ o[1] > bestMatch.x

\* ---------------------------------------------------------------------------
\* C24: a failure inside the solver or the handler reaches the caller as the
\* value false: neither function lets an exception out, every way of giving
\* up ends in "Failed", and when the screenshot or a crop failed no press of
\* the mouse was made.
C24_FailuresAreReturnedAsFalse ==
  /\ solverResult \in { "none", "true", "false" }
  /\ solved \in { "none", "true", "false" }
  /\ failure # "none" =>
       /\ solved = "false"
       /\ trail # << >>
       /\ trail[Len(trail)] = "Failed"
  /\ failure = "capture" =>
       /\ solverResult = "false"
       /\ drags = 0
       /\ dragFrom = NoPoint
       /\ dragTo = NoPoint

\* C24 witness: the capture threw after the confirmation click, and the
\* caller has been handed false.
C24_Witness ==
  /\ failure = "capture"
  /\ confirmed
  /\ cpc = "main_error"
  /\ solved = "false"

\* ---------------------------------------------------------------------------
\* C25 (as the claim states it): the drag is pressed at the middle of the
\* slider handle and released at that point moved right by bestMatch.x, at
\* the same height.
C25_DragFromCentreByBestX ==
  dragTo # NoPoint =>
    /\ dragFrom = startPoint(handleBox)
    /\ dragTo = [x |-> dragFrom.x + bestMatch.x, y |-> dragFrom.y]

\* ---------------------------------------------------------------------------
\* C26: once the handler has returned false, main does not call it again
\* and does nothing more with the page than take the error screenshot and
\* close the browser.
C26_OneAttemptThenScreenshotAndClose ==
  [][(solved = "false") =>
       \/ mainSteps' = mainSteps
       \/ mainSteps' = Append(mainSteps, "screenshot")
       \/ mainSteps' = Append(mainSteps, "close")]_vars

\* C26 witness: the first challenge was solved, the one after the search was
\* not, and main has closed the browser after the screenshot.
C26_Witness ==
  /\ cpc = "closed"
  /\ solved = "false"
  /\ Searched
  /\ Len(mainSteps) >= 2
  /\ mainSteps[Len(mainSteps) - 1] = "screenshot"
  /\ mainSteps[Len(mainSteps)] = "close"

\* ---------------------------------------------------------------------------
\* C27 (as the claim states it): when solveSliderCaptcha has returned, the
\* mouse button it pressed is up again.
C27_PressAlwaysReleased ==
  solverResult # "none" => ~mouseDown

====
